---------------------------- MODULE Spec2Model ----------------------------
(***************************************************************************)
(* Merchant transaction analytics (Billups data analysis).                 *)
(*                                                                         *)
(* The model follows the data flow of the repository: raw transactions and *)
(* raw merchants are joined and cleaned (DataLoader.clean_data), and the   *)
(* cleaned table is read by the analysis tasks of MerchantAnalysis         *)
(* (src/src/analysis/tasks.py).                                            *)
(*                                                                         *)
(* Representation.                                                         *)
(*  - A DataFrame without an orderBy is a bag (multiset) of rows: Spark    *)
(*    gives its rows no order.  A DataFrame that ends in an orderBy is a   *)
(*    sequence; rows that tie on the sort key may come in any order, which *)
(*    the task actions choose nondeterministically.                        *)
(*  - Money is a whole number of mills (1/1000): purchase_amount 100.0 is  *)
(*    100000.  F.round(x, 2) rounds HALF_UP to whole cents, so rounded     *)
(*    columns are whole numbers of cents (100.0 is 10000).  Sums and means *)
(*    are exact (the doubles' rounding error is not modelled).             *)
(*  - SQL NULL is NullStr in a string column and NullInt in an integer     *)
(*    column; NullInt is below every id, as NULL sorts first ascending.    *)
(*  - purchase_date is a record of the timestamp's fields.                 *)
(***************************************************************************)
EXTENDS Integers, Sequences, FiniteSets, Bags, TLC

VARIABLES
    transactions,   \* the raw transactions table (bag of RawTransaction rows)
    merchants,      \* the raw merchants table (bag of RawMerchant rows)
    cleaned,        \* the cleaned table (bag of CanonicalTransaction rows)
    pc,             \* "load": inputs are being written; "ready": cleaned exists
    out,            \* the result of the last task run: [task, rows]
    job             \* the SparkJob and the entry point that drives it

vars == <<transactions, merchants, cleaned, pc, out, job>>

NullStr == "<null>"
NullInt == 0 - 1

UnknownCategory == "Unknown category"

(***************************************************************************)
(* Bounds of the model.                                                    *)
(***************************************************************************)
MaxTx == 2
MaxMerch == 2
MaxRankTx == 6
MaxOrderTx == 3

(***************************************************************************)
(* Generic helpers over bags and integer sort keys.                        *)
(***************************************************************************)
RECURSIVE SumBy(_, _, _)
SumBy(S, b, f) ==
    IF S = {} THEN 0
    ELSE LET r == CHOOSE x \in S : TRUE
         IN  f[r] * b[r] + SumBy(S \ {r}, b, f)

\* number of rows of bag b that satisfy the predicate given as the set S
CountIn(b, S) == SumBy(S \cap BagToSet(b), b, [r \in S \cap BagToSet(b) |-> 1])

RECURSIVE BagOfSeq(_)
BagOfSeq(s) ==
    IF s = <<>> THEN EmptyBag
    ELSE SetToBag({Head(s)}) (+) BagOfSeq(Tail(s))

\* lexicographic order on tuples of integers of equal length
RECURSIVE LexLess(_, _)
LexLess(a, b) ==
    IF a = <<>> THEN FALSE
    ELSE IF Head(a) # Head(b) THEN Head(a) < Head(b)
    ELSE LexLess(Tail(a), Tail(b))

\* every ordering of the rows of S that is ascending in key (orderBy):
\* rows with equal keys come in any order
RECURSIVE SortedSeqs(_, _)
SortedSeqs(S, key) ==
    IF S = {} THEN {<<>>}
    ELSE LET first == {x \in S : \A y \in S : ~LexLess(key[y], key[x])}
         IN  UNION {{<<m>> \o s : s \in SortedSeqs(S \ {m}, key)} : m \in first}

Abs(x) == IF x < 0 THEN 0 - x ELSE x
Sign(x) == IF x < 0 THEN 0 - 1 ELSE 1

\* rounding that loses the sign of the quotient
RoundHalfUpUnsigned(num, den) ==
    Abs(num) \div (10 * den)
      + (IF 2 * (Abs(num) % (10 * den)) >= 10 * den THEN 1 ELSE 0)

\* F.round(num / den, 2) of an exact quotient in mills, HALF_UP, in cents
\* (num in mills, den a positive count or 1)
RoundHalfUp(num, den) ==
    Sign(num) * (Abs(num) \div (10 * den)
                   + (IF 2 * (Abs(num) % (10 * den)) >= 10 * den THEN 1 ELSE 0))

(***************************************************************************)
(* DataLoader.clean_data: left join on merchant_id, then the two null      *)
(* substitutions.  The loader's source is not part of the sources at hand; *)
(* it is modelled from the specification, section 4.1.                     *)
(***************************************************************************)
Matches(t, ms) == {m \in BagToSet(ms) : m.merchant_id = t.merchant_id}

Coalesce(value, substitute) ==
    IF value = NullStr THEN substitute ELSE value

NoMerchant == [merchant_name |-> NullStr, city_id |-> NullInt, state_id |-> NullInt]

CleanRowNameUnknown(t, m) ==
    [merchant_id     |-> t.merchant_id,
     merchant_name   |-> Coalesce(m.merchant_name, "Unknown merchant"),
     city_id         |-> m.city_id,
     state_id        |-> m.state_id,
     category        |-> Coalesce(t.category, UnknownCategory),
     purchase_date   |-> t.purchase_date,
     purchase_amount |-> t.purchase_amount,
     installments    |-> t.installments]
CleanRowZeroLocation(t, m) ==
    [merchant_id     |-> t.merchant_id,
     merchant_name   |-> Coalesce(m.merchant_name, t.merchant_id),
     city_id         |-> IF m.city_id = NullInt THEN 0 ELSE m.city_id,
     state_id        |-> IF m.state_id = NullInt THEN 0 ELSE m.state_id,
     category        |-> Coalesce(t.category, UnknownCategory),
     purchase_date   |-> t.purchase_date,
     purchase_amount |-> t.purchase_amount,
     installments    |-> t.installments]
CleanRow(t, m) ==
    [merchant_id     |-> t.merchant_id,
     merchant_name   |-> Coalesce(m.merchant_name, t.merchant_id),
     city_id         |-> m.city_id,
     state_id        |-> m.state_id,
     category        |-> Coalesce(t.category, UnknownCategory),
     purchase_date   |-> t.purchase_date,
     purchase_amount |-> t.purchase_amount,
     installments    |-> t.installments]

\* the rows one transaction row t (taken once) joins to, as a bag
JoinedRows(t, ms) ==
    IF Matches(t, ms) = {}
    THEN SetToBag({CleanRow(t, NoMerchant)})
    ELSE LET rows == {CleanRow(t, m) : m \in Matches(t, ms)}
         IN  [r \in rows |->
                SumBy({m \in Matches(t, ms) : CleanRow(t, m) = r}, ms,
                      [m \in Matches(t, ms) |-> 1])]

RECURSIVE JoinAll(_, _, _)
JoinAll(T, ts, ms) ==
    IF T = {} THEN EmptyBag
    ELSE LET t == CHOOSE x \in T : TRUE
             j == JoinedRows(t, ms)
         IN  [r \in DOMAIN j |-> j[r] * ts[t]] (+) JoinAll(T \ {t}, ts, ms)

clean_data(ts, ms) == JoinAll(BagToSet(ts), ts, ms)

(***************************************************************************)
(* Column functions of the engine used by the tasks.                       *)
(***************************************************************************)
MonthAbbrev ==
    <<"Jan", "Feb", "Mar", "Apr", "May", "Jun",
      "Jul", "Aug", "Sep", "Oct", "Nov", "Dec">>

\* date_format(concat(year, "-", month, "-01"), "MMM yyyy")
FormatMonth(y, m) == MonthAbbrev[m] \o " " \o ToString(y)

\* The month abbreviations in string order: the order of two "MMM yyyy"
\* strings is the order of their abbreviations, then of their years.
AbbrevsInStringOrder ==
    <<"Apr", "Aug", "Dec", "Feb", "Jan", "Jul",
      "Jun", "Mar", "May", "Nov", "Oct", "Sep">>

StringOrderOfMonth(m) ==
    CHOOSE i \in 1..12 : AbbrevsInStringOrder[i] = MonthAbbrev[m]

\* F.round(col, 2) of a column in mills: whole cents, HALF_UP
Round2(x) == RoundHalfUp(x, 1)

(***************************************************************************)
(* MerchantAnalysis.task1_top_merchants_by_city_month                      *)
(***************************************************************************)
TopMerchants == 5

MonthlyGroupKey(r) ==
    <<r.purchase_date.year, r.purchase_date.month, r.city_id, r.merchant_name>>

\* groupBy(year, month, city_id, merchant_name).agg(sum, count)
monthly_aggregated_by_merchant_only(df) ==
    LET rows == BagToSet(df)
    IN  {LET grp == {r \in rows : r.merchant_name = k[4]}
         IN  [year |-> k[1], month |-> k[2], city_id |-> k[3],
              merchant_name |-> k[4],
              purchase_total |-> SumBy(grp, df, [r \in grp |-> r.purchase_amount]),
              no_of_sales |-> SumBy(grp, df, [r \in grp |-> 1])]
         : k \in {MonthlyGroupKey(r) : r \in rows}}
monthly_aggregated(df) ==
    LET rows == BagToSet(df)
    IN  {LET grp == {r \in rows : MonthlyGroupKey(r) = k}
         IN  [year |-> k[1], month |-> k[2], city_id |-> k[3],
              merchant_name |-> k[4],
              purchase_total |-> SumBy(grp, df, [r \in grp |-> r.purchase_amount]),
              no_of_sales |-> SumBy(grp, df, [r \in grp |-> 1])]
         : k \in {MonthlyGroupKey(r) : r \in rows}}

\* Window.partitionBy(year, month, city_id)
SamePartition(a, b) ==
    a.year = b.year /\ a.month = b.month /\ a.city_id = b.city_id

\* orderBy(desc(purchase_total), desc(no_of_sales)): b comes before a
OrderedBefore(b, a) ==
    \/ b.purchase_total > a.purchase_total
    \/ b.purchase_total = a.purchase_total /\ b.no_of_sales > a.no_of_sales

\* F.dense_rank().over(window_spec): one more than the number of distinct
\* ordering values that come before the row's in its partition
rank_with_gaps(a, agg) ==
    Cardinality({b \in agg : SamePartition(a, b) /\ OrderedBefore(b, a)}) + 1
dense_rank(a, agg) ==
    Cardinality({<<b.purchase_total, b.no_of_sales>> :
                    b \in {x \in agg : SamePartition(a, x) /\ OrderedBefore(x, a)}}) + 1

\* monthly_aggregated.withColumn("rank", dense_rank().over(window_spec))
with_rank(agg) ==
    {[year |-> a.year, month |-> a.month, city_id |-> a.city_id,
      merchant_name |-> a.merchant_name, purchase_total |-> a.purchase_total,
      no_of_sales |-> a.no_of_sales, rank |-> dense_rank(a, agg)] : a \in agg}

\* .filter(col("rank") <= 5)
ranked_merchants(df) ==
    {a \in with_rank(monthly_aggregated(df)) : a.rank <= TopMerchants}

\* the select list of the result
Task1Row(a) ==
    [month          |-> FormatMonth(a.year, a.month),
     city_id        |-> a.city_id,
     merchant_name  |-> a.merchant_name,
     purchase_total |-> Round2(a.purchase_total),
     no_of_sales    |-> a.no_of_sales]

\* .orderBy("year", "month", "city_id", "rank") after the select: "month"
\* is the select's output column, the formatted string; "year" and "rank"
\* are not in the select list and are taken from ranked_merchants.
Task1SortKey(a) == <<a.year, StringOrderOfMonth(a.month), a.city_id, a.rank>>

Task1Project(s) == [i \in 1..Len(s) |-> Task1Row(s[i])]

task1_top_merchants_by_city_month(df) ==
    LET ranked == ranked_merchants(df)
    IN  {Task1Project(s) :
            s \in SortedSeqs(ranked, [a \in ranked |-> Task1SortKey(a)])}

(***************************************************************************)
(* MerchantAnalysis.task2_average_sale_by_merchant_state                   *)
(***************************************************************************)
\* groupBy(merchant_name, state_id).agg(avg(purchase_amount)), then
\* round(average_amount, 2)
avg_sales_by_merchant_only(df) ==
    LET rows == BagToSet(df)
    IN  {LET grp == {r \in rows : r.merchant_name = k[1]}
         IN  [merchant_name |-> k[1], state_id |-> k[2],
              average_amount |->
                 RoundHalfUp(SumBy(grp, df, [r \in grp |-> r.purchase_amount]),
                             SumBy(grp, df, [r \in grp |-> 1]))]
         : k \in {<<r.merchant_name, r.state_id>> : r \in rows}}
avg_sales(df) ==
    LET rows == BagToSet(df)
    IN  {LET grp == {r \in rows : <<r.merchant_name, r.state_id>> = k}
         IN  [merchant_name |-> k[1], state_id |-> k[2],
              average_amount |->
                 RoundHalfUp(SumBy(grp, df, [r \in grp |-> r.purchase_amount]),
                             SumBy(grp, df, [r \in grp |-> 1]))]
         : k \in {<<r.merchant_name, r.state_id>> : r \in rows}}

\* .orderBy(desc("average_amount"))
Task2SortKey(a) == <<0 - a.average_amount>>

task2_average_sale_by_merchant_state(df) ==
    LET rows == avg_sales(df)
    IN  SortedSeqs(rows, [a \in rows |-> Task2SortKey(a)])

(***************************************************************************)
(* MerchantAnalysis.task3_top_hours_by_category                            *)
(***************************************************************************)
TopHours == 3

\* the category strings of the model in string (byte) order; NULL first
CategoriesInStringOrder ==
    <<NullStr, "", "Books", "Electronics", "Fashion", "Garden", "Health",
      "Toys", UnknownCategory>>

StringOrderOfCategory(c) ==
    CHOOSE i \in 1..Len(CategoriesInStringOrder) : CategoriesInStringOrder[i] = c

\* groupBy("category", hour(purchase_date)).agg(sum(purchase_amount))
hourly_sales(df) ==
    LET rows == BagToSet(df)
    IN  {LET grp == {r \in rows : r.category = k[1] /\ r.purchase_date.hour = k[2]}
         IN  [category |-> k[1], hour |-> k[2],
              total_sales |-> SumBy(grp, df, [r \in grp |-> r.purchase_amount])]
         : k \in {<<r.category, r.purchase_date.hour>> : r \in rows}}

\* a ranking that counts the rows above, not the distinct totals above
hour_rank_with_gaps(a, agg) ==
    1 + Cardinality({b \in agg : b.category = a.category
                                   /\ b.total_sales > a.total_sales})

\* dense_rank().over(partitionBy("category").orderBy(desc("total_sales")))
hour_rank(a, agg) ==
    1 + Cardinality({b.total_sales : b \in {x \in agg :
                        x.category = a.category /\ x.total_sales > a.total_sales}})

\* withColumn("rank", ...).filter(rank <= 3)
ranked_hours(df) ==
    LET agg == hourly_sales(df)
        ranked == {[category |-> a.category, hour |-> a.hour,
                    total_sales |-> a.total_sales, rank |-> hour_rank(a, agg)]
                   : a \in agg}
    IN  {a \in ranked : a.rank <= TopHours}

\* select("category", hour.cast("string"))
Task3Project(a) == [category |-> a.category, hour |-> ToString(a.hour)]

\* .orderBy("category", "rank"): rank is not selected, the sort reads it
\* from the ranked rows
Task3SortKey(a) == <<StringOrderOfCategory(a.category), a.rank>>

task3_top_hours_by_category(df) ==
    LET kept == ranked_hours(df)
    IN  {[i \in 1..Len(s) |-> Task3Project(s[i])]
         : s \in SortedSeqs(kept, [a \in kept |-> Task3SortKey(a)])}

(***************************************************************************)
(* MerchantAnalysis.task4_popular_merchants_location_analysis              *)
(***************************************************************************)
TopPopular == 10

\* groupBy("merchant_name", "city_id").agg(count("*"))
merchant_popularity(df) ==
    LET rows == BagToSet(df)
    IN  {LET grp == {r \in rows : r.merchant_name = k[1] /\ r.city_id = k[2]}
         IN  [merchant_name |-> k[1], city_id |-> k[2],
              transaction_count |-> SumBy(grp, df, [r \in grp |-> 1])]
         : k \in {<<r.merchant_name, r.city_id>> : r \in rows}}

\* a ranking that counts the merchants above, not the distinct counts above
merchant_rank_with_gaps(a, agg) ==
    1 + Cardinality({b \in agg : b.city_id = a.city_id
                                   /\ b.transaction_count > a.transaction_count})

\* dense_rank().over(partitionBy("city_id").orderBy(desc("transaction_count")))
merchant_rank(a, agg) ==
    1 + Cardinality({b.transaction_count : b \in {x \in agg :
                        x.city_id = a.city_id
                          /\ x.transaction_count > a.transaction_count}})

\* withColumn("rank", ...).filter(rank <= 10)
top_merchants_by_city(df) ==
    LET agg == merchant_popularity(df)
        ranked == {[merchant_name |-> a.merchant_name, city_id |-> a.city_id,
                    transaction_count |-> a.transaction_count,
                    rank |-> merchant_rank(a, agg)] : a \in agg}
    IN  {a \in ranked : a.rank <= TopPopular}

\* groupBy("city_id", "category").agg(count("*"), sum("purchase_amount"))
city_category_analysis(df) ==
    LET rows == BagToSet(df)
    IN  {LET grp == {r \in rows : r.city_id = k[1] /\ r.category = k[2]}
         IN  [city_id |-> k[1], category |-> k[2],
              transaction_count |-> SumBy(grp, df, [r \in grp |-> 1]),
              total_sales |-> SumBy(grp, df, [r \in grp |-> r.purchase_amount])]
         : k \in {<<r.city_id, r.category>> : r \in rows}}

\* a maximum that takes the least category among the largest counts
max_struct_least_category(rows) ==
    CHOOSE a \in rows : \A b \in rows :
        ~LexLess(<<a.transaction_count, 0 - StringOrderOfCategory(a.category)>>,
                 <<b.transaction_count, 0 - StringOrderOfCategory(b.category)>>)

\* F.max(F.struct("transaction_count", "category")): structs compare field
\* by field, the count first and then the category string
max_struct(rows) ==
    CHOOSE a \in rows : \A b \in rows :
        ~LexLess(<<a.transaction_count, StringOrderOfCategory(a.category)>>,
                 <<b.transaction_count, StringOrderOfCategory(b.category)>>)

city_dominant_categories(df) ==
    LET agg == city_category_analysis(df)
    IN  {LET top == max_struct({a \in agg : a.city_id = city})
         IN  [city_id |-> city,
              dominant_category |-> top.category,
              category_transactions |-> top.transaction_count]
         : city \in {a.city_id : a \in agg}}

\* the two result tables, in the order of the returned tuple; neither is
\* sorted, so each is a bag of rows
task4_popular_merchants_location_analysis(df) ==
    <<SetToBag(top_merchants_by_city(df)), SetToBag(city_dominant_categories(df))>>

(***************************************************************************)
(* MerchantAnalysis.task5_business_recommendations                         *)
(***************************************************************************)
ReportLimit == 5

\* the share of sales that is gross profit, in percent
GrossMarginPct == 25

\* the default rate, in thousandths; half of a defaulted sale is lost, so
\* the loss total_sales * 0.229 * 0.5 is 229 units of 1/2000 of total_sales
DefaultRatePerMille == 229
ProfitUnits == 2000

\* a limit that keeps the end of the sorted table
LimitLast(s, n) ==
    SubSeq(s, (IF Len(s) < n THEN 0 ELSE Len(s) - n) + 1, Len(s))

\* DataFrame.limit(n) of a sorted table: its first n rows
Limit(s, n) == SubSeq(s, 1, IF Len(s) < n THEN Len(s) ELSE n)

\* .orderBy(desc("total_sales"))
PerformanceSortKey(a) == <<0 - a.total_sales>>

\* groupBy("city_id").agg(sum, count, avg).orderBy(desc("total_sales"));
\* avg_transaction_value is the exact quotient <<sum, count>>
city_performance(df) ==
    LET rows == BagToSet(df)
        agg == {LET grp == {r \in rows : r.city_id = k}
                    total == SumBy(grp, df, [r \in grp |-> r.purchase_amount])
                    n == SumBy(grp, df, [r \in grp |-> 1])
                IN  [city_id |-> k, total_sales |-> total,
                     transaction_count |-> n,
                     avg_transaction_value |-> <<total, n>>]
                : k \in {r.city_id : r \in rows}}
    IN  SortedSeqs(agg, [a \in agg |-> PerformanceSortKey(a)])

\* groupBy("category").agg(sum, count, avg).orderBy(desc("total_sales"))
category_performance(df) ==
    LET rows == BagToSet(df)
        agg == {LET grp == {r \in rows : r.category = k}
                    total == SumBy(grp, df, [r \in grp |-> r.purchase_amount])
                    n == SumBy(grp, df, [r \in grp |-> 1])
                IN  [category |-> k, total_sales |-> total,
                     transaction_count |-> n,
                     avg_transaction_value |-> <<total, n>>]
                : k \in {r.category : r \in rows}}
    IN  SortedSeqs(agg, [a \in agg |-> PerformanceSortKey(a)])

\* a sort by the month alone
MonthlySortKeyMonthOnly(a) == <<a.month>>

\* .orderBy("year", "month")
MonthlySortKey(a) == <<a.year, a.month>>

\* groupBy(year, month).agg(sum, count).orderBy("year", "month"): the month
\* column is the month number
monthly_trends(df) ==
    LET rows == BagToSet(df)
        agg == {LET grp == {r \in rows : /\ r.purchase_date.year = k[1]
                                         /\ r.purchase_date.month = k[2]}
                IN  [year |-> k[1], month |-> k[2],
                     total_sales |-> SumBy(grp, df, [r \in grp |-> r.purchase_amount]),
                     transaction_count |-> SumBy(grp, df, [r \in grp |-> 1])]
                : k \in {<<r.purchase_date.year, r.purchase_date.month>> : r \in rows}}
    IN  SortedSeqs(agg, [a \in agg |-> MonthlySortKey(a)])

\* groupBy(hour).agg(sum, count).orderBy("hour")
hourly_patterns(df) ==
    LET rows == BagToSet(df)
        agg == {LET grp == {r \in rows : r.purchase_date.hour = k}
                IN  [hour |-> k,
                     total_sales |-> SumBy(grp, df, [r \in grp |-> r.purchase_amount]),
                     transaction_count |-> SumBy(grp, df, [r \in grp |-> 1])]
                : k \in {r.purchase_date.hour : r \in rows}}
    IN  SortedSeqs(agg, [a \in agg |-> <<a.hour>>])

\* an aggregation that loses the rows without a number of installments
installment_analysis_without_null_group(df) ==
    LET rows == {r \in BagToSet(df) : r.installments # NullInt}
        agg == {LET grp == {r \in rows : r.installments = k}
                    total == SumBy(grp, df, [r \in grp |-> r.purchase_amount])
                    n == SumBy(grp, df, [r \in grp |-> 1])
                IN  [installments |-> k, avg_purchase_amount |-> <<total, n>>,
                     transaction_count |-> n, total_sales |-> total]
                : k \in {r.installments : r \in rows}}
    IN  SortedSeqs(agg, [a \in agg |-> <<a.installments>>])

\* groupBy("installments").agg(avg, count, sum).orderBy("installments");
\* the null group sorts first
installment_analysis(df) ==
    LET rows == BagToSet(df)
        agg == {LET grp == {r \in rows : r.installments = k}
                    total == SumBy(grp, df, [r \in grp |-> r.purchase_amount])
                    n == SumBy(grp, df, [r \in grp |-> 1])
                IN  [installments |-> k, avg_purchase_amount |-> <<total, n>>,
                     transaction_count |-> n, total_sales |-> total]
                : k \in {r.installments : r \in rows}}
    IN  SortedSeqs(agg, [a \in agg |-> <<a.installments>>])

\* F.round(k * num / den, 0), HALF_UP, of an exact quotient (den not 0)
RoundQuotient(k, num, den) ==
    LET q == Abs(num) \div Abs(den)
        r == k * (Abs(num) % Abs(den))
    IN  Sign(num) * Sign(den)
          * (k * q + r \div Abs(den)
               + (IF 2 * (r % Abs(den)) >= Abs(den) THEN 1 ELSE 0))

\* a default loss that is charged on every payment term
default_loss_on_every_term(installments, total_sales) ==
    total_sales * DefaultRatePerMille

\* F.when(installments > 1, total_sales * 0.229 * 0.5).otherwise(0), in
\* 1/2000 of a mill; a NULL installments fails the condition
default_loss(installments, total_sales) ==
    IF installments # NullInt /\ installments > 1
    THEN total_sales * DefaultRatePerMille
    ELSE 0

\* the columns added to one installments group and the rounding select; the
\* exact profits are kept in 1/2000 of a mill, the rounded columns are cents
\* and profit_margin_pct is hundredths of a percent.  The margin of a group
\* without sales is the NULL of a division by zero.
ProfitabilityRow(a) ==
    LET gross == a.total_sales * GrossMarginPct * (ProfitUnits \div 100)
        loss == default_loss(a.installments, a.total_sales)
        net == gross - loss
    IN  [installments |-> a.installments,
         avg_purchase_amount |->
            RoundHalfUp(a.avg_purchase_amount[1], a.avg_purchase_amount[2]),
         transaction_count |-> a.transaction_count,
         gross_profit |-> RoundHalfUp(gross, ProfitUnits),
         expected_default_loss |-> RoundHalfUp(loss, ProfitUnits),
         net_profit |-> RoundHalfUp(net, ProfitUnits),
         profit_margin_pct |->
            IF a.total_sales = 0 THEN NullInt
            ELSE RoundQuotient(10000 \div ProfitUnits, net, a.total_sales)]

\* a collected table, and a query that stopped with an arithmetic error
Collected(rows) == [error |-> "", rows |-> rows]
Raised == [error |-> "DIVIDE_BY_ZERO", rows |-> <<>>]

\* The division by a zero total_sales is NULL where the session does not
\* run in ANSI mode and an error where it does; the session's mode is the
\* default of the installed engine, which setup.py leaves open.
analyze_installment_profitability(installment_results) ==
    {Collected([i \in 1..Len(s) |-> ProfitabilityRow(s[i])])
        : s \in installment_results}
    \cup
    (IF \E s \in installment_results : \E i \in 1..Len(s) : s[i].total_sales = 0
     THEN {Raised} ELSE {})

Task5Keys ==
    {"top_cities", "top_categories", "monthly_trends", "hourly_patterns",
     "installment_recommendation"}

\* the returned dict: each value is a table that is computed when it is
\* collected, so each key has the set of its possible outcomes
task5_business_recommendations(df) ==
    [top_cities |->
        {Collected(Limit(s, ReportLimit)) : s \in city_performance(df)},
     top_categories |->
        {Collected(Limit(s, ReportLimit)) : s \in category_performance(df)},
     monthly_trends |-> {Collected(s) : s \in monthly_trends(df)},
     hourly_patterns |-> {Collected(s) : s \in hourly_patterns(df)},
     installment_recommendation |->
        analyze_installment_profitability(installment_analysis(df))]

(***************************************************************************)
(* Input domains.                                                          *)
(***************************************************************************)
RankMerchantIds == <<"M001", "M002", "M003", "M004", "M005", "M006">>
RankMerchantNames == <<"Acme", "Bolt", "Cove", "Dune", "Echo", "Fern">>

Date(y, m, d, h) == [year |-> y, month |-> m, day |-> d, hour |-> h]

CleanTxDomain ==
    [merchant_id     : {"M001", "M999"},
     purchase_amount : {100000},
     purchase_date   : {Date(2023, 1, 15, 10)},
     category        : {NullStr, "", "Electronics"},
     installments    : {NullInt, 1}]

\* many merchants of one city selling in one month
RankTxDomain ==
    [merchant_id     : {"M001"},
     purchase_amount : {1000, 2000},
     purchase_date   : {Date(2023, 1, 15, 10)},
     category        : {"Electronics"},
     installments    : {1}]
    \cup
    UNION {[merchant_id     : {RankMerchantIds[i]},
            purchase_amount : {1000, i * 1000},
            purchase_date   : {Date(2023, 1, 15, 10)},
            category        : {"Electronics"},
            installments    : {1}] : i \in 2..Len(RankMerchantIds)}

RankMerchants ==
    BagOfSeq([i \in 1..Len(RankMerchantIds) |->
                [merchant_id |-> RankMerchantIds[i],
                 merchant_name |-> RankMerchantNames[i],
                 city_id |-> 1, state_id |-> 10]])

\* few merchants, several months, cities and states
OrderTxDomain ==
    [merchant_id     : {"M001", "M002", "M999"},
     purchase_amount : {100000, 0 - 1005},
     purchase_date   : {Date(2022, 12, 15, 10), Date(2023, 1, 15, 10),
                        Date(2023, 2, 15, 10), Date(2023, 4, 15, 10)},
     category        : {"Electronics"},
     installments    : {1}]

OrderMerchants ==
    SetToBag({[merchant_id |-> "M001", merchant_name |-> "Acme",
               city_id |-> 1, state_id |-> 10],
              [merchant_id |-> "M002", merchant_name |-> "Acme",
               city_id |-> 2, state_id |-> 20]})

CleanMerchDomain ==
    [merchant_id   : {"M001"},
     merchant_name : {NullStr, "", "Acme"},
     city_id       : {NullInt, 2},
     state_id      : {20}]

(***************************************************************************)
(* Actions.                                                                *)
(***************************************************************************)
NoResult == [task |-> "none", rows |-> <<>>]

\* no SparkJob has been constructed and no entry point has started.
\* cache is the attribute _cleaned_data: <<>> is None, <<df>> a cached table;
\* log is the sequence of the events of the job, hive the set of the Hive
\* tables that were written with results.
NoJob ==
    [entry |-> "none", stage |-> "none", task |-> "none", use_hive |-> FALSE,
     cache |-> <<>>, log |-> <<>>, hive |-> {}]

Init ==
    /\ transactions = EmptyBag
    /\ merchants = EmptyBag
    /\ cleaned = EmptyBag
    /\ pc = "load"
    /\ out = NoResult
    /\ job = NoJob

LoadTransaction(Dom, max) ==
    /\ pc = "load"
    /\ BagCardinality(transactions) < max
    /\ \E t \in Dom : transactions' = transactions (+) SetToBag({t})
    /\ UNCHANGED <<merchants, cleaned, pc, out, job>>

LoadMerchant(Dom, max) ==
    /\ pc = "load"
    /\ BagCardinality(merchants) < max
    /\ \E m \in Dom : merchants' = merchants (+) SetToBag({m})
    /\ UNCHANGED <<transactions, cleaned, pc, out, job>>

CleanData ==
    /\ pc = "load"
    /\ cleaned' = clean_data(transactions, merchants)
    /\ pc' = "ready"
    /\ UNCHANGED <<transactions, merchants, out, job>>

\* A task is a read of the cleaned table that returns a new result table;
\* a run applies one task to the cleaned table.
Task1 ==
    /\ pc = "ready"
    /\ out = NoResult
    /\ \E rows \in task1_top_merchants_by_city_month(cleaned) :
          out' = [task |-> "task1", rows |-> rows]
    /\ UNCHANGED <<transactions, merchants, cleaned, pc, job>>

Task2 ==
    /\ pc = "ready"
    /\ out = NoResult
    /\ \E rows \in task2_average_sale_by_merchant_state(cleaned) :
          out' = [task |-> "task2", rows |-> rows]
    /\ UNCHANGED <<transactions, merchants, cleaned, pc, job>>

RunTask == Task1 \/ Task2

Next ==
    \/ LoadTransaction(CleanTxDomain, MaxTx)
    \/ LoadMerchant(CleanMerchDomain, MaxMerch)
    \/ CleanData
    \/ RunTask

Spec == Init /\ [][Next]_vars

\* one city and month with many merchants: the merchants table is given
InitRank ==
    /\ transactions = EmptyBag
    /\ merchants = RankMerchants
    /\ cleaned = EmptyBag
    /\ pc = "load"
    /\ out = NoResult
    /\ job = NoJob

NextRank ==
    \/ LoadTransaction(RankTxDomain, MaxRankTx)
    \/ CleanData
    \/ RunTask

SpecRank == InitRank /\ [][NextRank]_vars

\* several months, cities and states: the merchants table is given
InitOrder ==
    /\ transactions = EmptyBag
    /\ merchants = OrderMerchants
    /\ cleaned = EmptyBag
    /\ pc = "load"
    /\ out = NoResult
    /\ job = NoJob

NextOrder ==
    \/ LoadTransaction(OrderTxDomain, MaxOrderTx)
    \/ CleanData
    \/ RunTask

SpecOrder == InitOrder /\ [][NextOrder]_vars

(***************************************************************************)
(* Task 3 on categories sold at several hours of the day.                  *)
(***************************************************************************)
MaxHoursTx == 5

HoursOfDay == 9..13

\* the sale of each hour that no other hour has (in mills)
HourAmounts == <<1000, 2000, 4000, 5000, 6000>>

\* every hour can also have a sale of 3.0, which ties the hours' totals
HoursTxDomain ==
    UNION {[merchant_id     : {"M001"},
            purchase_amount : {3000, HourAmounts[h - 8]},
            purchase_date   : {Date(2023, 1, 15, h)},
            category        : {"Electronics"},
            installments    : {1}] : h \in HoursOfDay}
    \cup
    [merchant_id     : {"M001"},
     purchase_amount : {3000},
     purchase_date   : {Date(2023, 1, 15, 9), Date(2023, 1, 15, 10)},
     category        : {"Fashion"},
     installments    : {1}]

Task3 ==
    /\ pc = "ready"
    /\ out = NoResult
    /\ \E rows \in task3_top_hours_by_category(cleaned) :
          out' = [task |-> "task3", rows |-> rows]
    /\ UNCHANGED <<transactions, merchants, cleaned, pc, job>>

NextHours ==
    \/ LoadTransaction(HoursTxDomain, MaxHoursTx)
    \/ CleanData
    \/ Task3

SpecHours == InitOrder /\ [][NextHours]_vars

(***************************************************************************)
(* Task 4 on one city with many merchants, and on several cities.          *)
(***************************************************************************)
MaxPopMerchants == 11
MaxOtherTx == 1
MaxCityTx == 4

PopularMerchantId(i) == "P" \o ToString(i)

PopularMerchants ==
    SetToBag({[merchant_id |-> PopularMerchantId(i),
               merchant_name |-> "Shop " \o ToString(i),
               city_id |-> 1, state_id |-> 10] : i \in 1..MaxPopMerchants})

PopularSale(i) ==
    [merchant_id     |-> PopularMerchantId(i),
     purchase_amount |-> 1000,
     purchase_date   |-> Date(2023, 1, 15, 10),
     category        |-> "Electronics",
     installments    |-> 1]

PopularSales == {PopularSale(i) : i \in 1..MaxPopMerchants}

\* a sale by a merchant that is not in the merchants table (no city)
OtherTxDomain ==
    [merchant_id     : {"M999"},
     purchase_amount : {1000},
     purchase_date   : {Date(2023, 1, 15, 10)},
     category        : {"Electronics"},
     installments    : {1}]

\* the transactions file gets the sales of the next merchant of the city:
\* two sales, or as many sales as the merchant's number
LoadSales ==
    /\ pc = "load"
    /\ \E i \in 1..MaxPopMerchants : \E n \in {2, i} :
          /\ Cardinality(BagToSet(transactions) \cap PopularSales) = i - 1
          /\ transactions' = transactions (+) [t \in {PopularSale(i)} |-> n]
    /\ UNCHANGED <<merchants, cleaned, pc, out, job>>

LoadOther ==
    /\ pc = "load"
    /\ CountIn(transactions, OtherTxDomain) < MaxOtherTx
    /\ \E t \in OtherTxDomain : transactions' = transactions (+) SetToBag({t})
    /\ UNCHANGED <<merchants, cleaned, pc, out, job>>

Task4 ==
    /\ pc = "ready"
    /\ out = NoResult
    /\ out' = [task |-> "task4",
               rows |-> task4_popular_merchants_location_analysis(cleaned)]
    /\ UNCHANGED <<transactions, merchants, cleaned, pc, job>>

InitPopular ==
    /\ transactions = EmptyBag
    /\ merchants = PopularMerchants
    /\ cleaned = EmptyBag
    /\ pc = "load"
    /\ out = NoResult
    /\ job = NoJob

NextPopular ==
    \/ LoadSales
    \/ LoadOther
    \/ CleanData
    \/ Task4

SpecPopular == InitPopular /\ [][NextPopular]_vars

\* cities that sell several categories
CityTxDomain ==
    [merchant_id     : {"M001", "M002", "M999"},
     purchase_amount : {1000, 5000},
     purchase_date   : {Date(2023, 1, 15, 10)},
     category        : {"Books", "Fashion"},
     installments    : {1}]

NextCity ==
    \/ LoadTransaction(CityTxDomain, MaxCityTx)
    \/ CleanData
    \/ Task4

SpecCity == InitOrder /\ [][NextCity]_vars

(***************************************************************************)
(* Task 5 on many cities and categories, on several months and hours, and  *)
(* on several payment terms.                                               *)
(***************************************************************************)
MaxTopTx == 6
MaxTrendTx == 3
MaxInstallTx == 3

TopCategories == <<"Books", "Electronics", "Fashion", "Garden", "Health", "Toys">>

\* six merchants, each in a city of its own
TopCityMerchants ==
    BagOfSeq([i \in 1..Len(RankMerchantIds) |->
                [merchant_id |-> RankMerchantIds[i],
                 merchant_name |-> RankMerchantNames[i],
                 city_id |-> i, state_id |-> 10]])

\* every merchant sells one category; a sale of 1.0 ties the cities
TopTxDomain ==
    UNION {[merchant_id     : {RankMerchantIds[i]},
            purchase_amount : {1000, i * 1000},
            purchase_date   : {Date(2023, 1, 15, 10)},
            category        : {TopCategories[i]},
            installments    : {1}] : i \in 1..Len(RankMerchantIds)}

TrendTxDomain ==
    [merchant_id     : {"M001"},
     purchase_amount : {1000, 2000},
     purchase_date   : {Date(2022, 12, 15, 0), Date(2022, 12, 15, 23),
                        Date(2023, 2, 15, 0), Date(2023, 2, 15, 9),
                        Date(2023, 10, 15, 9), Date(2023, 10, 15, 23)},
     category        : {"Electronics"},
     installments    : {1}]

InstallTxDomain ==
    [merchant_id     : {"M001"},
     purchase_amount : {1000000, 1010, 0 - 1010},
     purchase_date   : {Date(2023, 1, 15, 10)},
     category        : {"Electronics"},
     installments    : {NullInt, 0, 1, 3}]

\* one of the returned tables is collected
Task5 ==
    /\ pc = "ready"
    /\ out = NoResult
    /\ \E key \in Task5Keys :
          \E result \in task5_business_recommendations(cleaned)[key] :
             out' = [task |-> IF result = Raised THEN "task5 raised" ELSE "task5",
                     rows |-> <<key, result.rows>>]
    /\ UNCHANGED <<transactions, merchants, cleaned, pc, job>>

InitTop ==
    /\ transactions = EmptyBag
    /\ merchants = TopCityMerchants
    /\ cleaned = EmptyBag
    /\ pc = "load"
    /\ out = NoResult
    /\ job = NoJob

NextTop ==
    \/ LoadTransaction(TopTxDomain, MaxTopTx)
    \/ CleanData
    \/ RunTask
    \/ Task3
    \/ Task4
    \/ Task5

SpecTop == InitTop /\ [][NextTop]_vars

NextTrend ==
    \/ LoadTransaction(TrendTxDomain, MaxTrendTx)
    \/ CleanData
    \/ Task5

SpecTrend == InitOrder /\ [][NextTrend]_vars

NextInstall ==
    \/ LoadTransaction(InstallTxDomain, MaxInstallTx)
    \/ CleanData
    \/ Task5

SpecInstall == InitOrder /\ [][NextInstall]_vars

\* sales of two months of different years at shared hours, with and without
\* a number of installments, of either sign
MaxConserveTx == 3

ConserveTxDomain ==
    [merchant_id     : {"M001"},
     purchase_amount : {1000, 0 - 2500},
     purchase_date   : {Date(2022, 12, 15, 23), Date(2023, 1, 15, 9),
                        Date(2023, 1, 20, 23)},
     category        : {"Electronics"},
     installments    : {NullInt, 3}]

NextConserve ==
    \/ LoadTransaction(ConserveTxDomain, MaxConserveTx)
    \/ CleanData
    \/ Task5

SpecConserve == InitOrder /\ [][NextConserve]_vars

(***************************************************************************)
(* SparkJob (src/src/spark_job.py): the cached cleaned table and the       *)
(* run_task1 .. run_task5 methods.                                         *)
(***************************************************************************)
MaxCalls == 3
MaxJobTx == 2

TaskNames == <<"task1", "task2", "task3", "task4", "task5">>

Event(e, t) == [ev |-> e, task |-> t]

\* the events e of a log, in order
RECURSIVE EventsOf(_, _)
EventsOf(log, e) ==
    IF log = <<>> THEN <<>>
    ELSE (IF Head(log).ev = e THEN <<Head(log)>> ELSE <<>>) \o EventsOf(Tail(log), e)

\* a lookup that calls the loader on every call
get_cleaned_data_uncached(j, ts, ms) ==
    {[job |-> [j EXCEPT !.cache = <<clean_data(ts, ms)>>,
                        !.log = Append(@, Event("load", ""))],
      df |-> clean_data(ts, ms)]}

\* SparkJob.get_cleaned_data: the loader is called when the attribute is
\* None.  Otherwise the attribute is returned: its rows are those that were
\* cached, or, where the engine has dropped cached blocks, the rows that
\* the same plan reads from the files now.
get_cleaned_data(j, ts, ms) ==
    IF j.cache = <<>>
    THEN {[job |-> [j EXCEPT !.cache = <<clean_data(ts, ms)>>,
                             !.log = Append(@, Event("load", ""))],
           df |-> clean_data(ts, ms)]}
    ELSE {[job |-> [j EXCEPT !.cache = <<d>>], df |-> d]
          : d \in {j.cache[1], clean_data(ts, ms)}}

\* the results a task can return on a cleaned table, as values of out
TaskResults(name, df) ==
    CASE name = "task1" ->
           {[task |-> name, rows |-> r] : r \in task1_top_merchants_by_city_month(df)}
      [] name = "task2" ->
           {[task |-> name, rows |-> r] : r \in task2_average_sale_by_merchant_state(df)}
      [] name = "task3" ->
           {[task |-> name, rows |-> r] : r \in task3_top_hours_by_category(df)}
      [] name = "task4" ->
           {[task |-> name, rows |-> task4_popular_merchants_location_analysis(df)]}
      [] name = "task5" ->
           UNION {{[task |-> name, rows |-> <<key, result.rows>>]
                     : result \in task5_business_recommendations(df)[key] \ {Raised}}
                  : key \in Task5Keys}

\* run_task2 formats min_avg of the result with ":.2f" (None for a result
\* without rows) and, for the rows 11 to 30, slices merchant_name and formats
\* state_id with ":<10", which a None does not support
Task2Raises(rows) ==
    \/ rows = <<>>
    \/ \E i \in 11..30 :
          /\ i <= Len(rows)
          /\ (rows[i].state_id = NullInt \/ rows[i].merchant_name = NullStr)

TotalSales(df) ==
    SumBy(BagToSet(df), df, [r \in BagToSet(df) |-> r.purchase_amount])

\* run_task5 divides by the total sales (None for a table without rows) and
\* by the largest hourly total, and formats the margin of the most
\* profitable payment term with ":.1f"
Task5Raises(df) ==
    \/ TotalSales(df) = 0
    \/ \E s \in hourly_patterns(df) :
          \A i \in 1..Len(s) :
             (\A k \in 1..Len(s) : s[k].total_sales <= s[i].total_sales)
                => s[i].total_sales = 0
    \/ \E s \in installment_analysis(df) :
          \E i \in 1..Len(s) :
             /\ s[i].total_sales = 0
             /\ \A k \in 1..Len(s) :
                   ProfitabilityRow(s[k]).net_profit <= ProfitabilityRow(s[i]).net_profit

\* whether the method raises: for run_task5 a group without sales also
\* raises where the session runs in ANSI mode
RaisesOf(name, df, result) ==
    CASE name = "task2" -> {Task2Raises(result.rows)}
      [] name = "task5" ->
           IF Task5Raises(df) THEN {TRUE}
           ELSE IF Raised \in task5_business_recommendations(df).installment_recommendation
                THEN {TRUE, FALSE} ELSE {FALSE}
      [] OTHER -> {FALSE}

\* save_results is reached unless run_task2 has raised on its statistics
Saves(name, save, result, raised) ==
    save /\ ~(name = "task2" /\ raised /\ result.rows = <<>>)

RaisedResult(name) == [task |-> name \o " raised", rows |-> <<>>]

\* SparkJob.run_taskN(output_path): the cleaned table is read through the
\* cache, the task is computed, the result is saved to the output path when
\* one is given, and the result is returned unless the printing raises.
\* No run_taskN writes a Hive table.
run_task(j, name, save, ts, ms) ==
    UNION {UNION {{[job |-> [read.job EXCEPT !.log =
                                Append(j.log, Event("call", name))
                                  \o SubSeq(read.job.log, Len(j.log) + 1,
                                            Len(read.job.log))
                                  \o (IF Saves(name, save, result, raised)
                                      THEN <<Event("save", name)>> ELSE <<>>)
                                  \o <<Event(IF raised THEN "raise" ELSE "return",
                                             name)>>],
                     df |-> read.df,
                     out |-> IF raised THEN RaisedResult(name) ELSE result]
                    : raised \in RaisesOf(name, read.df, result)}
                  : result \in TaskResults(name, read.df)}
           : read \in get_cleaned_data(j, ts, ms)}

JobTxDomain ==
    [merchant_id     : {"M001"},
     purchase_amount : {100000, -100000},
     purchase_date   : {Date(2023, 1, 15, 10)},
     category        : {"Electronics"},
     installments    : {1}]

\* the input files are written before a job is constructed
WriteInputs ==
    /\ job = NoJob
    /\ LoadTransaction(JobTxDomain, MaxJobTx)

\* SparkJob(transactions_path, merchants_path, use_hive)
Construct ==
    /\ job = NoJob
    /\ \E h \in BOOLEAN :
          job' = [NoJob EXCEPT !.entry = "SparkJob", !.stage = "constructed",
                               !.use_hive = h,
                               !.log = <<Event("session", "")>>]
    /\ UNCHANGED <<transactions, merchants, cleaned, pc, out>>

\* a caller of the class calls run_task1 .. run_task5 in any order
CallRunTask ==
    /\ job.entry = "SparkJob"
    /\ job.stage = "constructed"
    /\ Len(EventsOf(job.log, "call")) < MaxCalls
    /\ \E i \in 1..Len(TaskNames), save \in BOOLEAN :
          \E r \in run_task(job, TaskNames[i], save, transactions, merchants) :
             /\ job' = r.job
             /\ cleaned' = r.df
             /\ out' = r.out
    /\ UNCHANGED <<transactions, merchants, pc>>

NextJob ==
    \/ WriteInputs
    \/ Construct
    \/ CallRunTask

SpecJob == InitOrder /\ [][NextJob]_vars

\* the transactions file gets more rows after the job has cached its table
ChangeInputs ==
    /\ job.cache # <<>>
    /\ LoadTransaction(JobTxDomain, MaxJobTx)

NextStale ==
    \/ WriteInputs
    \/ Construct
    \/ CallRunTask
    \/ ChangeInputs

SpecStale == InitOrder /\ [][NextStale]_vars

(***************************************************************************)
(* The entry points: main of spark_job.py and the click group of cli.py.   *)
(***************************************************************************)
Found(exists) == IF exists THEN "exists" ELSE "missing"

\* run_all_tasks stops at the first task that raises
RECURSIVE run_from_past_raise(_, _, _, _)
run_from_past_raise(r, i, ts, ms) ==
    IF i > Len(TaskNames)
    THEN {[r EXCEPT !.job.log = Append(@, Event("completed", "all"))]}
    ELSE UNION {run_from_past_raise(n, i + 1, ts, ms)
                  : n \in run_task(r.job, TaskNames[i], TRUE, ts, ms)}

\* run_task1 .. run_task5 from the i-th on, each with its output path; an
\* exception of one of them leaves run_all_tasks at once
RECURSIVE run_from(_, _, _, _)
run_from(r, i, ts, ms) ==
    IF i > Len(TaskNames)
    THEN {[r EXCEPT !.job.log = Append(@, Event("completed", "all"))]}
    ELSE UNION {IF n.out = RaisedResult(TaskNames[i])
                THEN {n}
                ELSE run_from(n, i + 1, ts, ms)
                  : n \in run_task(r.job, TaskNames[i], TRUE, ts, ms)}

run_all_tasks(j, ts, ms) ==
    run_from([job |-> [j EXCEPT !.log = Append(@, Event("run_all", ""))],
              df |-> EmptyBag, out |-> NoResult], 1, ts, ms)

\* the merchants path is looked at first
check_paths_merchants_first(entry, te, me, h) ==
    [NoJob EXCEPT !.entry = entry, !.use_hive = h,
                  !.stage = IF te /\ me THEN "checked" ELSE "exited",
                  !.log = <<Event("check merchants", Found(me))>>
                          \o (IF me THEN <<Event("check transactions", Found(te))>>
                              ELSE <<>>)
                          \o (IF te /\ me THEN <<>> ELSE <<Event("exit", "1")>>)]

\* os.path.exists on the transactions path, then on the merchants path, each
\* followed by sys.exit(1) when the path is missing
check_paths(entry, te, me, h) ==
    [NoJob EXCEPT !.entry = entry, !.use_hive = h,
                  !.stage = IF te /\ me THEN "checked" ELSE "exited",
                  !.log = <<Event("check transactions", Found(te))>>
                          \o (IF te THEN <<Event("check merchants", Found(me))>>
                              ELSE <<>>)
                          \o (IF te /\ me THEN <<>> ELSE <<Event("exit", "1")>>)]

\* the selected task of main: run_all_tasks for "all", else one run_taskN
selected_task(j, t, ts, ms) ==
    IF t = "all" THEN run_all_tasks(j, ts, ms)
    ELSE run_task(j, t, TRUE, ts, ms)

\* stop is called after a task that has returned only
main_without_finally(te, me, h, t, ts, ms) ==
    LET checked == check_paths("main", te, me, h)
        j == [checked EXCEPT !.stage = "constructed",
                             !.log = Append(@, Event("session", ""))]
    IN  IF checked.stage = "exited"
        THEN {[job |-> checked, df |-> EmptyBag, out |-> NoResult]}
        ELSE {[r EXCEPT !.job.stage = "ended", !.job.task = t,
                        !.job.log = IF r.job.log[Len(r.job.log)].ev = "raise"
                                    THEN @ ELSE Append(@, Event("stop", ""))]
                : r \in selected_task(j, t, ts, ms)}

\* main(): the path checks, SparkJob(...), the task of --task inside try,
\* job.stop() in its finally
main(te, me, h, t, ts, ms) ==
    LET checked == check_paths("main", te, me, h)
        j == [checked EXCEPT !.stage = "constructed",
                             !.log = Append(@, Event("session", ""))]
    IN  IF checked.stage = "exited"
        THEN {[job |-> checked, df |-> EmptyBag, out |-> NoResult]}
        ELSE {[r EXCEPT !.job.stage = "ended", !.job.task = t,
                        !.job.log = Append(@, Event("stop", ""))]
                : r \in selected_task(j, t, ts, ms)}

\* a task command of the click group: the loader cleans the inputs, the
\* result is saved, written to Hive when use_hive is set, and shown
cli_command(j, name, ts, ms) ==
    LET df == clean_data(ts, ms)
        ansi == name = "task5"
                  /\ Raised \in task5_business_recommendations(df).installment_recommendation
    IN  UNION {{[job |-> [j EXCEPT !.stage = "ended", !.task = name,
                                   !.hive = IF j.use_hive /\ ~raised
                                            THEN {name} ELSE {},
                                   !.log = @ \o <<Event("call", name),
                                                  Event("load", "")>>
                                             \o (IF raised
                                                 THEN <<Event("raise", name)>>
                                                 ELSE <<Event("save", name)>>
                                                      \o (IF j.use_hive
                                                          THEN <<Event("hive", name)>>
                                                          ELSE <<>>)
                                                      \o <<Event("return", name)>>)],
                  df |-> df,
                  out |-> IF raised THEN RaisedResult(name) ELSE result]
                 : raised \in (IF ansi THEN {TRUE, FALSE} ELSE {FALSE})}
               : result \in TaskResults(name, df)}

\* cli(): the path checks, the session, the loader, then the command
cli(te, me, h, name, ts, ms) ==
    LET checked == check_paths("cli", te, me, h)
        j == [checked EXCEPT !.stage = "constructed",
                             !.log = Append(@, Event("session", ""))]
    IN  IF checked.stage = "exited"
        THEN {[job |-> checked, df |-> EmptyBag, out |-> NoResult]}
        ELSE cli_command(j, name, ts, ms)

\* python -m src.spark_job -t .. -m .. --task t [--no-hive]
Main ==
    /\ job = NoJob
    /\ \E te, me, h \in BOOLEAN, t \in {TaskNames[i] : i \in 1..Len(TaskNames)} \cup {"all"} :
          \E r \in main(te, me, h, t, transactions, merchants) :
             /\ job' = r.job
             /\ cleaned' = r.df
             /\ out' = r.out
    /\ UNCHANGED <<transactions, merchants, pc>>

\* python -m src.cli -t .. -m .. [--no-hive] taskN
Cli ==
    /\ job = NoJob
    /\ \E te, me, h \in BOOLEAN, i \in 1..Len(TaskNames) :
          \E r \in cli(te, me, h, TaskNames[i], transactions, merchants) :
             /\ job' = r.job
             /\ cleaned' = r.df
             /\ out' = r.out
    /\ UNCHANGED <<transactions, merchants, pc>>

NextMain ==
    \/ WriteInputs
    \/ Main
    \/ Cli

SpecMain == InitOrder /\ [][NextMain]_vars

(***************************************************************************)
(* A SparkJob on a file with more merchant groups than run_task2 shows in  *)
(* its first table.                                                        *)
(***************************************************************************)
StateSale(id, amount) ==
    [merchant_id     |-> id,
     purchase_amount |-> amount,
     purchase_date   |-> Date(2023, 1, 15, 10),
     category        |-> "Electronics",
     installments    |-> 1]

\* the transactions file gets one sale of the next merchant of the
\* merchants table, larger than the sales before it, or one sale of a
\* merchant that is not in the table (no state), small or large
WriteSales ==
    /\ job = NoJob
    /\ \/ \E i \in 1..MaxPopMerchants :
             /\ Cardinality({t \in BagToSet(transactions) : t.merchant_id # "M999"})
                  = i - 1
             /\ transactions' = transactions
                                  (+) SetToBag({StateSale(PopularMerchantId(i), 1000 * i)})
       \/ \E a \in {500, 99000} :
             /\ \A t \in BagToSet(transactions) : t.merchant_id # "M999"
             /\ transactions' = transactions (+) SetToBag({StateSale("M999", a)})
    /\ UNCHANGED <<merchants, cleaned, pc, out, job>>

NextPrint ==
    \/ WriteSales
    \/ Construct
    \/ CallRunTask

SpecPrint == InitPopular /\ [][NextPrint]_vars

(***************************************************************************)
(* Claims about cleaning (checked under Spec).                             *)
(***************************************************************************)
RawRows == BagToSet(transactions)
MerchantRows == BagToSet(merchants)
CleanedRows == BagToSet(cleaned)

\* C1: cleaning returns exactly one cleaned row per input transaction row,
\* none dropped and none duplicated: for every merchant_id the cleaned table
\* has as many rows as the transactions table, also when a merchant_id is
\* on several merchant rows.
C1_OneRowPerTransaction ==
    pc = "ready" =>
        /\ BagCardinality(cleaned) = BagCardinality(transactions)
        /\ \A id \in {t.merchant_id : t \in RawRows} :
              CountIn(cleaned, {r \in CleanedRows : r.merchant_id = id})
                = CountIn(transactions, {t \in RawRows : t.merchant_id = id})

\* C2: merchant_name of a cleaned row is the joined merchant's name when
\* that name is not null, and the row's merchant_id when the name is null or
\* no merchant row matched.
C2_MerchantNameResolved ==
    pc = "ready" =>
        \A r \in CleanedRows :
            LET same == {m \in MerchantRows : m.merchant_id = r.merchant_id}
            IN  IF same = {}
                THEN r.merchant_name = r.merchant_id
                ELSE \E m \in same :
                        /\ r.city_id = m.city_id
                        /\ r.state_id = m.state_id
                        /\ r.merchant_name =
                             IF m.merchant_name # NullStr THEN m.merchant_name
                             ELSE r.merchant_id

C2_Witness ==
    /\ pc = "ready"
    /\ \E r \in CleanedRows : r.merchant_name = "Acme"
    /\ \E r \in CleanedRows :
          r.merchant_id = "M001" /\ r.merchant_name = "M001"
    /\ \E r \in CleanedRows :
          r.merchant_id = "M999" /\ r.merchant_name = "M999"

\* C3: category is "Unknown category" exactly when the source category was
\* null and a non-null category is carried over, so every non-null category
\* has the same number of rows before and after cleaning (and the rows of
\* "Unknown category" are the rows whose source category was null).
C3_CategoryCounts ==
    pc = "ready" =>
        /\ \A c \in {t.category : t \in RawRows} \ {NullStr} :
              CountIn(cleaned, {r \in CleanedRows : r.category = c})
                = CountIn(transactions, {t \in RawRows : t.category = c})
        /\ CountIn(cleaned, {r \in CleanedRows : r.category = UnknownCategory})
             = CountIn(transactions, {t \in RawRows : t.category = NullStr})

\* C4: in every cleaned row merchant_name is neither null nor empty and
\* category is neither null nor empty, whatever the source values were.
C4_NeverNullNorEmpty ==
    pc = "ready" =>
        \A r \in CleanedRows :
            /\ r.merchant_name \notin {NullStr, ""}
            /\ r.category \notin {NullStr, ""}

\* C5: cleaning leaves purchase_date, purchase_amount and installments of
\* every transaction unchanged, copies city_id and state_id from a matched
\* merchant, and leaves both null when no merchant matched.
C5_PassThrough ==
    pc = "ready" =>
        /\ \A r \in CleanedRows : \E t \in RawRows :
              /\ r.merchant_id = t.merchant_id
              /\ r.purchase_date = t.purchase_date
              /\ r.purchase_amount = t.purchase_amount
              /\ r.installments = t.installments
              /\ LET same == {m \in MerchantRows : m.merchant_id = t.merchant_id}
                 IN  IF same = {}
                     THEN r.city_id = NullInt /\ r.state_id = NullInt
                     ELSE \E m \in same :
                             r.city_id = m.city_id /\ r.state_id = m.state_id
        /\ \A t \in RawRows : \E r \in CleanedRows :
              /\ r.merchant_id = t.merchant_id
              /\ r.purchase_date = t.purchase_date
              /\ r.purchase_amount = t.purchase_amount
              /\ r.installments = t.installments

C5_Witness ==
    /\ pc = "ready"
    /\ \E r \in CleanedRows : r.city_id = NullInt /\ r.state_id = NullInt
    /\ \E r \in CleanedRows : r.city_id = 2 /\ r.state_id = 20
    /\ \E r \in CleanedRows : r.installments = NullInt
(***************************************************************************)
(* Claims about Task 1 and Task 2.                                         *)
(***************************************************************************)
OutRows == {out.rows[i] : i \in 1..Len(out.rows)}
ModelYears == {2022, 2023}

\* the ranked aggregate of the cleaned table before the rank filter
RankedAll == with_rank(monthly_aggregated(cleaned))

\* "MMM yyyy" as the claims write it
ExpectedMonthText(y, m) ==
    (CASE m = 1 -> "Jan" [] m = 2 -> "Feb" [] m = 3 -> "Mar" [] m = 4 -> "Apr"
       [] m = 5 -> "May" [] m = 6 -> "Jun" [] m = 7 -> "Jul" [] m = 8 -> "Aug"
       [] m = 9 -> "Sep" [] m = 10 -> "Oct" [] m = 11 -> "Nov" [] m = 12 -> "Dec")
    \o " " \o ToString(y)

\* c (cents) is num / den (mills) rounded to 2 decimals, halves away from 0
IsRounded2(c, num, den) ==
    \/ 2 * Abs(10 * c * den - num) < 10 * den
    \/ 2 * Abs(10 * c * den - num) = 10 * den /\ Abs(10 * c * den) > Abs(num)

\* the ranked aggregate row an output row of Task 1 was selected from
RankedOf(r) ==
    CHOOSE a \in RankedAll :
        /\ ExpectedMonthText(a.year, a.month) = r.month
        /\ a.city_id = r.city_id
        /\ a.merchant_name = r.merchant_name

\* C6: every (month, city_id) of the Task 1 output has at most 5 rows, also
\* when several merchants have equal purchase_total and equal no_of_sales.
C6_AtMostFiveRowsPerCityMonth ==
    out.task = "task1" =>
        \A r \in OutRows :
            Cardinality({x \in OutRows : x.month = r.month /\ x.city_id = r.city_id})
                <= 5

\* C7: the Task 1 rows are ordered by calendar year, then calendar month
\* number, then city_id, then rank ascending.
C7_ChronologicalOrder ==
    out.task = "task1" =>
        \A i, j \in 1..Len(out.rows) :
            i < j =>
                LET a == RankedOf(out.rows[i])
                    b == RankedOf(out.rows[j])
                IN  ~LexLess(<<b.year, b.month, b.city_id, b.rank>>,
                             <<a.year, a.month, a.city_id, a.rank>>)

C9_Task1RowValues ==
    out.task = "task1" =>
        /\ \A r \in OutRows :
             \E y \in ModelYears, m \in 1..12 :
                LET grp == {c \in CleanedRows :
                               /\ c.purchase_date.year = y
                               /\ c.purchase_date.month = m
                               /\ c.city_id = r.city_id
                               /\ c.merchant_name = r.merchant_name}
                IN  /\ r.month = ExpectedMonthText(y, m)
                    /\ grp # {}
                    /\ r.no_of_sales = CountIn(cleaned, grp)
                    /\ IsRounded2(r.purchase_total,
                                  SumBy(grp, cleaned,
                                        [c \in grp |-> c.purchase_amount]), 1)
        /\ (cleaned = SetToBag({[merchant_id |-> "M001", merchant_name |-> "Acme",
                                 city_id |-> 1, state_id |-> 10,
                                 category |-> "Electronics",
                                 purchase_date |-> Date(2023, 1, 15, 10),
                                 purchase_amount |-> 100000,
                                 installments |-> 1]})) =>
              out.rows = <<[month |-> "Jan 2023", city_id |-> 1,
                            merchant_name |-> "Acme", purchase_total |-> 10000,
                            no_of_sales |-> 1]>>

C9_Witness ==
    /\ out.task = "task1"
    /\ \E r \in OutRows :
          r.no_of_sales = 2 /\ r.purchase_total = 9900 /\ r.month = "Apr 2023"
    /\ \E r \in OutRows : r.city_id = NullInt

\* C10: Task 2 returns exactly one row per distinct (merchant_name,
\* state_id) pair of the cleaned table (a null state_id is a group of its
\* own), average_amount is the mean of the pair's purchase_amount rounded to
\* 2 decimals, and the rows are ordered by average_amount descending.
C10_Task2AveragePerMerchantState ==
    out.task = "task2" =>
        /\ {<<r.merchant_name, r.state_id>> : r \in OutRows}
             = {<<c.merchant_name, c.state_id>> : c \in CleanedRows}
        /\ Len(out.rows)
             = Cardinality({<<c.merchant_name, c.state_id>> : c \in CleanedRows})
        /\ \A r \in OutRows :
             LET grp == {c \in CleanedRows :
                            c.merchant_name = r.merchant_name
                              /\ c.state_id = r.state_id}
             IN  IsRounded2(r.average_amount,
                            SumBy(grp, cleaned, [c \in grp |-> c.purchase_amount]),
                            CountIn(cleaned, grp))
        /\ \A i, j \in 1..Len(out.rows) :
             i < j => out.rows[i].average_amount >= out.rows[j].average_amount

C10_Witness ==
    /\ out.task = "task2"
    /\ Len(out.rows) = 2
    /\ \E r \in OutRows :
          r.state_id = NullInt /\ r.merchant_name = "M999"
            /\ r.average_amount = 4950
    /\ \E r \in OutRows : r.merchant_name = "Acme" /\ r.state_id = 20

HourTotal(cat, h) ==
    LET grp == {c \in CleanedRows : c.category = cat /\ c.purchase_date.hour = h}
    IN  SumBy(grp, cleaned, [c \in grp |-> c.purchase_amount])

HoursOf(cat) == {c.purchase_date.hour : c \in {x \in CleanedRows : x.category = cat}}

\* the dense rank of hour h within its category: one more than the number
\* of distinct larger totals
HourRankOf(cat, h) ==
    1 + Cardinality({HourTotal(cat, g) : g \in {x \in HoursOf(cat) :
                        HourTotal(cat, x) > HourTotal(cat, h)}})

HourOfText(text) == CHOOSE h \in 0..23 : ToString(h) = text

\* C12: for every category in the output of Task 3 the output has at most
\* 3 rows (hours) of that category.
C12_AtMostThreeHoursPerCategory ==
    out.task = "task3" =>
        \A cat \in {r.category : r \in OutRows} :
           Cardinality({i \in 1..Len(out.rows) : out.rows[i].category = cat}) <= 3

TopMerchantRows == BagToSet(out.rows[1])
DominantRows == BagToSet(out.rows[2])

\* the number of cleaned rows of a merchant name in a city
SalesOfMerchant(name, city) ==
    CountIn(cleaned, {c \in CleanedRows : c.merchant_name = name /\ c.city_id = city})

\* the number of cleaned rows of a category in a city
SalesOfCategory(city, cat) ==
    CountIn(cleaned, {c \in CleanedRows : c.city_id = city /\ c.category = cat})

CategoriesOfCity(city) ==
    {c.category : c \in {x \in CleanedRows : x.city_id = city}}

\* C14: for every city_id in the first result of Task 4 the result has at
\* most 10 merchant rows of that city.
C14_AtMostTenMerchantsPerCity ==
    out.task = "task4" =>
        \A city \in {r.city_id : r \in TopMerchantRows} :
           CountIn(out.rows[1], {r \in TopMerchantRows : r.city_id = city}) <= 10

\* C15: in the first result of Task 4 the ranks of every city are 1..k for
\* some k from 1 to 10, two merchants of a city share a rank exactly when
\* their transaction_count is equal, and a lower rank has a strictly larger
\* transaction_count.
C15_DenseRanksByTransactionCount ==
    out.task = "task4" =>
        /\ \A city \in {r.city_id : r \in TopMerchantRows} :
             LET ranks == {r.rank : r \in {x \in TopMerchantRows : x.city_id = city}}
             IN  /\ ranks = 1..Cardinality(ranks)
                 /\ Cardinality(ranks) >= 1
                 /\ Cardinality(ranks) <= 10
        /\ \A a, b \in TopMerchantRows :
             a.city_id = b.city_id =>
                /\ (a.rank = b.rank) <=> (a.transaction_count = b.transaction_count)
                /\ (a.rank < b.rank) => (a.transaction_count > b.transaction_count)
        /\ \A a \in TopMerchantRows :
             a.transaction_count = SalesOfMerchant(a.merchant_name, a.city_id)

C15_Witness ==
    /\ out.task = "task4"
    /\ {r.rank : r \in {x \in TopMerchantRows : x.city_id = 1}} = 1..10
    /\ Cardinality({c.merchant_name : c \in {x \in CleanedRows : x.city_id = 1}}) = 11
    /\ \E r \in TopMerchantRows : r.city_id = NullInt /\ r.rank = 1

\* C16: the second result of Task 4 has exactly one row per distinct
\* city_id of the cleaned table; category_transactions is the largest number
\* of cleaned rows over the city's categories, dominant_category is a
\* category of the city with that many rows, and among several such
\* categories it is the greatest in string order, whatever their sales.
C16_DominantCategoryPerCity ==
    out.task = "task4" =>
        /\ {r.city_id : r \in DominantRows} = {c.city_id : c \in CleanedRows}
        /\ BagCardinality(out.rows[2])
             = Cardinality({c.city_id : c \in CleanedRows})
        /\ \A r \in DominantRows :
             /\ r.dominant_category \in CategoriesOfCity(r.city_id)
             /\ r.category_transactions
                  = SalesOfCategory(r.city_id, r.dominant_category)
             /\ \A cat \in CategoriesOfCity(r.city_id) :
                  /\ SalesOfCategory(r.city_id, cat) <= r.category_transactions
                  /\ SalesOfCategory(r.city_id, cat) = r.category_transactions
                       => StringOrderOfCategory(cat)
                            <= StringOrderOfCategory(r.dominant_category)

C16_Witness ==
    /\ out.task = "task4"
    /\ \E r \in DominantRows :
          /\ r.city_id = 1
          /\ r.dominant_category = "Fashion"
          /\ r.category_transactions = 1
          /\ \E c \in CleanedRows :
                c.city_id = 1 /\ c.category = "Books" /\ c.purchase_amount = 5000
          /\ \A c \in CleanedRows :
                (c.city_id = 1 /\ c.category = "Fashion") => c.purchase_amount = 1000
    /\ \E r \in DominantRows : r.city_id = NullInt
    /\ \E r \in DominantRows : r.city_id = 2

(***************************************************************************)
(* Claims about Task 5 (checked under SpecTop, SpecTrend and SpecInstall). *)
(***************************************************************************)
\* the key of the collected table of Task 5 and its rows
ReportKey == out.rows[1]
ReportRows == out.rows[2]
ReportRowSet == {ReportRows[i] : i \in 1..Len(ReportRows)}

Min(a, b) == IF a < b THEN a ELSE b

SalesOfCity(city) ==
    LET grp == {c \in CleanedRows : c.city_id = city}
    IN  SumBy(grp, cleaned, [c \in grp |-> c.purchase_amount])

SalesOfCategoryTotal(cat) ==
    LET grp == {c \in CleanedRows : c.category = cat}
    IN  SumBy(grp, cleaned, [c \in grp |-> c.purchase_amount])

\* C17: Task 5 returns exactly the five keys top_cities, top_categories,
\* monthly_trends, hourly_patterns and installment_recommendation;
\* top_cities (top_categories) has min(5, number of distinct city_id
\* (category)) rows in descending total_sales order, and every city
\* (category) left out has total_sales no greater than every one kept.
C17_FiveKeysAndTopFive ==
    /\ (pc = "ready" /\ out = NoResult) =>
          DOMAIN task5_business_recommendations(cleaned)
            = {"top_cities", "top_categories", "monthly_trends",
               "hourly_patterns", "installment_recommendation"}
    /\ (out.task = "task5" /\ ReportKey = "top_cities") =>
          LET cities == {c.city_id : c \in CleanedRows}
              kept == {r.city_id : r \in ReportRowSet}
          IN  /\ Len(ReportRows) = Min(5, Cardinality(cities))
              /\ Cardinality(kept) = Len(ReportRows)
              /\ kept \subseteq cities
              /\ \A r \in ReportRowSet : r.total_sales = SalesOfCity(r.city_id)
              /\ \A i, j \in 1..Len(ReportRows) :
                    i < j => ReportRows[i].total_sales >= ReportRows[j].total_sales
              /\ \A city \in cities \ kept : \A r \in ReportRowSet :
                    SalesOfCity(city) <= r.total_sales
    /\ (out.task = "task5" /\ ReportKey = "top_categories") =>
          LET cats == {c.category : c \in CleanedRows}
              kept == {r.category : r \in ReportRowSet}
          IN  /\ Len(ReportRows) = Min(5, Cardinality(cats))
              /\ Cardinality(kept) = Len(ReportRows)
              /\ kept \subseteq cats
              /\ \A r \in ReportRowSet :
                    r.total_sales = SalesOfCategoryTotal(r.category)
              /\ \A i, j \in 1..Len(ReportRows) :
                    i < j => ReportRows[i].total_sales >= ReportRows[j].total_sales
              /\ \A cat \in cats \ kept : \A r \in ReportRowSet :
                    SalesOfCategoryTotal(cat) <= r.total_sales

C17_Witness ==
    /\ out.task = "task5"
    /\ ReportKey = "top_cities"
    /\ Len(ReportRows) = 5
    /\ Cardinality({c.city_id : c \in CleanedRows}) = 6
    /\ ReportRows[1].total_sales > ReportRows[5].total_sales
    /\ \E c \in CleanedRows :
          /\ c.city_id \notin {r.city_id : r \in ReportRowSet}
          /\ SalesOfCity(c.city_id) < ReportRows[5].total_sales

\* C18: monthly_trends has exactly one row per distinct (year, month) of
\* the cleaned table, ordered by year and then month number; hourly_patterns
\* has exactly one row per distinct hour of the day, at most 24 rows,
\* ordered by hour ascending; no group is cut off.
C18_TrendsCompleteAndOrdered ==
    /\ (out.task = "task5" /\ ReportKey = "monthly_trends") =>
          LET months == {<<c.purchase_date.year, c.purchase_date.month>> :
                            c \in CleanedRows}
          IN  /\ {<<r.year, r.month>> : r \in ReportRowSet} = months
              /\ Len(ReportRows) = Cardinality(months)
              /\ \A i, j \in 1..Len(ReportRows) :
                    i < j =>
                       \/ ReportRows[i].year < ReportRows[j].year
                       \/ /\ ReportRows[i].year = ReportRows[j].year
                          /\ ReportRows[i].month < ReportRows[j].month
    /\ (out.task = "task5" /\ ReportKey = "hourly_patterns") =>
          LET hours == {c.purchase_date.hour : c \in CleanedRows}
          IN  /\ {r.hour : r \in ReportRowSet} = hours
              /\ Len(ReportRows) = Cardinality(hours)
              /\ Len(ReportRows) <= 24
              /\ \A i, j \in 1..Len(ReportRows) :
                    i < j => ReportRows[i].hour < ReportRows[j].hour

C18_Witness ==
    /\ out.task = "task5"
    /\ ReportKey = "monthly_trends"
    /\ Len(ReportRows) = 3
    /\ ReportRows[1].year = 2022 /\ ReportRows[1].month = 12
    /\ ReportRows[2].year = 2023 /\ ReportRows[2].month = 2
    /\ ReportRows[3].year = 2023 /\ ReportRows[3].month = 10

\* c is num / den rounded to a whole number, halves away from 0
IsRoundedWhole(c, num, den) ==
    \/ 2 * Abs(c * den - num) < den
    \/ 2 * Abs(c * den - num) = den /\ Abs(c * den) > Abs(num)

SalesOfTerm(installments) ==
    LET grp == {c \in CleanedRows : c.installments = installments}
    IN  SumBy(grp, cleaned, [c \in grp |-> c.purchase_amount])

\* C19: in every row of installment_recommendation gross_profit is 25% of
\* the group's total_sales; expected_default_loss is total_sales * 0.229 *
\* 0.5 when installments is greater than 1 and 0 otherwise (1, less than 1
\* or null); net_profit is their difference; profit_margin_pct is net_profit
\* / total_sales * 100 (null for a group without sales); each is rounded to
\* 2 decimals and the rows are ordered by installments ascending.  A group
\* of installments 3 with total_sales 1000 gives 250.00, 114.50, 135.50 and
\* 13.55.
C19_InstallmentProfitability ==
    (out.task = "task5" /\ ReportKey = "installment_recommendation") =>
        /\ {r.installments : r \in ReportRowSet}
             = {c.installments : c \in CleanedRows}
        /\ Len(ReportRows) = Cardinality({c.installments : c \in CleanedRows})
        /\ \A i, j \in 1..Len(ReportRows) :
             i < j => ReportRows[i].installments < ReportRows[j].installments
        /\ \A r \in ReportRowSet :
             LET total == SalesOfTerm(r.installments)
                 charged == r.installments # NullInt /\ r.installments > 1
                 lossRate == IF charged THEN 229 ELSE 0
             IN  /\ IsRounded2(r.gross_profit, 25 * total, 100)
                 /\ IsRounded2(r.expected_default_loss, lossRate * total, 2000)
                 /\ ~charged => r.expected_default_loss = 0
                 /\ IsRounded2(r.net_profit, (500 - lossRate) * total, 2000)
                 /\ total # 0 =>
                       IsRoundedWhole(r.profit_margin_pct,
                                      (500 - lossRate) * 10000, 2000)
                 /\ total = 0 => r.profit_margin_pct = NullInt
        /\ (cleaned = SetToBag({[merchant_id |-> "M001", merchant_name |-> "Acme",
                                 city_id |-> 1, state_id |-> 10,
                                 category |-> "Electronics",
                                 purchase_date |-> Date(2023, 1, 15, 10),
                                 purchase_amount |-> 1000000,
                                 installments |-> 3]})) =>
              /\ Len(ReportRows) = 1
              /\ ReportRows[1].gross_profit = 25000
              /\ ReportRows[1].expected_default_loss = 11450
              /\ ReportRows[1].net_profit = 13550
              /\ ReportRows[1].profit_margin_pct = 1355

C19_Witness ==
    /\ out.task = "task5"
    /\ ReportKey = "installment_recommendation"
    /\ Len(ReportRows) = 3
    /\ ReportRows[1].installments = NullInt
    /\ ReportRows[1].gross_profit = 25 /\ ReportRows[1].expected_default_loss = 0
    /\ ReportRows[2].installments = 0 /\ ReportRows[2].expected_default_loss = 0
    /\ ReportRows[3].installments = 3
    /\ ReportRows[3].gross_profit = 25000
    /\ ReportRows[3].expected_default_loss = 11450
    /\ ReportRows[3].net_profit = 13550
    /\ ReportRows[3].profit_margin_pct = 1355

(***************************************************************************)
(* Determinism of the tasks (checked under SpecTop).                       *)
(***************************************************************************)
SeqRows(s) == {s[i] : i \in 1..Len(s)}

\* C20: every task is deterministic: a second run on a cleaned table with
\* the same multiset of rows returns the same set of result rows as the
\* run that was made, also when groups tie on the sort or rank key.
C20_SameRowsOnEveryRun ==
    /\ out.task = "task1" =>
          \A s \in task1_top_merchants_by_city_month(cleaned) : SeqRows(s) = OutRows
    /\ out.task = "task2" =>
          \A s \in task2_average_sale_by_merchant_state(cleaned) : SeqRows(s) = OutRows
    /\ out.task = "task3" =>
          \A s \in task3_top_hours_by_category(cleaned) : SeqRows(s) = OutRows
    /\ out.task = "task4" =>
          out.rows = task4_popular_merchants_location_analysis(cleaned)
    /\ out.task = "task5" =>
          \A result \in task5_business_recommendations(cleaned)[ReportKey] :
             result # Raised => SeqRows(result.rows) = ReportRowSet

(***************************************************************************)
(* Claims about SparkJob (checked under SpecJob and SpecStale).            *)
(***************************************************************************)
Calls == EventsOf(job.log, "call")
Loads == EventsOf(job.log, "load")
FreshlyCleaned == clean_data(transactions, merchants)

\* the task of the last run_taskN call
LastCalled == Calls[Len(Calls)].task

\* the result in out is one that the task gives on the table df
ResultAsOn(df) ==
    IF out = RaisedResult(LastCalled)
    THEN \E result \in TaskResults(LastCalled, df) :
            TRUE \in RaisesOf(LastCalled, df, result)
    ELSE out \in TaskResults(LastCalled, df)

\* C21: for any sequence of run_task1 .. run_task5 calls on one SparkJob
\* the loader's get_cleaned_data is invoked exactly once, on the first
\* call; every later call reads the same cached table, no task changes it,
\* and every result is one the task gives when run alone on the freshly
\* cleaned data.
C21_CleanedOnceAndReused ==
    /\ [](job.entry = "SparkJob" =>
            /\ Len(Loads) = (IF Calls = <<>> THEN 0 ELSE 1)
            /\ \A k \in 1..Len(job.log) :
                  job.log[k].ev = "load" =>
                     /\ k > 1
                     /\ job.log[k - 1].ev = "call"
                     /\ \A i \in 1..(k - 2) : job.log[i].ev # "call"
            /\ Calls # <<>> =>
                  /\ job.cache = <<FreshlyCleaned>>
                  /\ cleaned = job.cache[1]
                  /\ ResultAsOn(FreshlyCleaned))
    /\ [][job.cache # <<>> => job.cache' = job.cache]_vars

C21_Witness ==
    /\ job.entry = "SparkJob"
    /\ Len(Calls) = 3
    /\ Calls[1].task = "task2" /\ Calls[2].task = "task1" /\ Calls[3].task = "task2"
    /\ Len(Loads) = 1
    /\ BagCardinality(job.cache[1]) = 2
    /\ out.task = "task2"

\* C22: when the input files change after the job has cached its cleaned
\* table, the cache is invalidated or recomputed: every run_taskN call
\* reads the cleaned data of the inputs as they are at the call.
C22_CacheFollowsInputs ==
    [][Len(EventsOf(job'.log, "call")) > Len(Calls)
          => cleaned' = clean_data(transactions, merchants)]_vars

\* C23: on a SparkJob constructed with use_hive = True every run_taskN call
\* that returns has written its result to a Hive table; on one constructed
\* with use_hive = False no Hive table is written.
C23_HiveWrittenWhenEnabled ==
    job.entry = "SparkJob" =>
        IF job.use_hive
        THEN \A k \in 1..Len(job.log) :
                 job.log[k].ev = "return" => job.log[k].task \in job.hive
        ELSE job.hive = {}

\* C24: when an installments group has total_sales equal to zero, Task 5
\* does not raise and keeps the group: its row has gross_profit,
\* expected_default_loss and net_profit 0 and a null profit_margin_pct.
C24_ZeroTotalGroupKept ==
    (/\ out.task \in {"task5", "task5 raised"}
     /\ ReportKey = "installment_recommendation") =>
        \A c \in CleanedRows :
            SalesOfTerm(c.installments) = 0 =>
                /\ out.task = "task5"
                /\ \E r \in ReportRowSet :
                      /\ r.installments = c.installments
                      /\ r.gross_profit = 0
                      /\ r.expected_default_loss = 0
                      /\ r.net_profit = 0
                      /\ r.profit_margin_pct = NullInt

(***************************************************************************)
(* Claims about the entry points (checked under SpecMain).                 *)
(***************************************************************************)
HasEvent(e) == \E k \in 1..Len(job.log) : job.log[k].ev = e

PositionsOf(e, t) == {k \in 1..Len(job.log) : job.log[k] = Event(e, t)}

\* C25: run_all_tasks calls run_task1 .. run_task5 in that order, each at
\* most once and each only after the one before it has returned; after a
\* task that raises no later task is called; the closing message is reached
\* only when all five have returned, and is reached then.
C25_RunAllTasksInOrder ==
    HasEvent("run_all") =>
        LET calls == EventsOf(job.log, "call")
        IN  /\ Len(calls) \in 1..Len(TaskNames)
            /\ \A i \in 1..Len(calls) : calls[i].task = TaskNames[i]
            /\ \A i \in 1..Len(calls) :
                  /\ Cardinality(PositionsOf("call", TaskNames[i])) = 1
                  /\ \A p \in 1..(i - 1) :
                        \E m \in PositionsOf("return", TaskNames[p]) :
                           \A k \in PositionsOf("call", TaskNames[i]) : m < k
            /\ \A k \in 1..Len(job.log) :
                  job.log[k].ev = "raise" =>
                     \A m \in (k + 1)..Len(job.log) :
                        job.log[m].ev \notin {"call", "load", "save", "return",
                                             "completed"}
            /\ HasEvent("completed") <=>
                  \A i \in 1..Len(TaskNames) :
                     \E m \in PositionsOf("return", TaskNames[i]) :
                        \A k \in PositionsOf("completed", "all") : m < k
            /\ HasEvent("completed") \/ HasEvent("raise")

C25_Witness ==
    /\ HasEvent("run_all")
    /\ Len(EventsOf(job.log, "call")) = 5
    /\ PositionsOf("return", "task4") # {}
    /\ PositionsOf("raise", "task5") # {}
    /\ ~HasEvent("completed")

\* C26: once main has constructed its SparkJob, stop is called exactly once
\* before main ends, for every value of --task and whether the task returns
\* or raises, and nothing runs after stop.
C26_StopExactlyOnce ==
    (job.entry = "main" /\ HasEvent("session")) =>
        /\ job.stage = "ended"
        /\ Cardinality(PositionsOf("stop", "")) = 1
        /\ job.log[Len(job.log)] = Event("stop", "")
        /\ \A k \in PositionsOf("session", "") : k < Len(job.log)
        /\ HasEvent("call")

C26_Witness ==
    /\ job.entry = "main"
    /\ job.task = "task2"
    /\ PositionsOf("raise", "task2") # {}
    /\ job.log[Len(job.log)] = Event("stop", "")

\* C27: main and the click group look at the transactions path first and at
\* the merchants path second; when one of them is missing the program exits
\* with status 1 before a session is created, data is loaded or a task runs.
C27_PathsCheckedFirst ==
    job.entry \in {"main", "cli"} =>
        /\ job.log[1].ev = "check transactions"
        /\ job.log[1].task = "missing" =>
              job.log = <<Event("check transactions", "missing"), Event("exit", "1")>>
        /\ job.log[1].task = "exists" =>
              /\ job.log[2].ev = "check merchants"
              /\ job.log[2].task = "missing" =>
                    job.log = <<Event("check transactions", "exists"),
                                Event("check merchants", "missing"),
                                Event("exit", "1")>>
              /\ job.log[2].task = "exists" =>
                    /\ job.log[3] = Event("session", "")
                    /\ ~HasEvent("exit")
        /\ HasEvent("exit") =>
              /\ job.stage = "exited"
              /\ job.cache = <<>> /\ job.hive = {}
              /\ cleaned = EmptyBag /\ out = NoResult

C27_Witness ==
    /\ job.entry = "cli"
    /\ job.log = <<Event("check transactions", "exists"),
                   Event("check merchants", "missing"),
                   Event("exit", "1")>>
    /\ BagCardinality(transactions) = 2

\* C28: run_task2 returns the Task 2 result without raising on every
\* cleaned table, also on one with more than 10 (merchant_name, state_id)
\* groups of which one has a null state_id.
C28_RunTask2NeverRaises ==
    job.entry = "SparkJob" => PositionsOf("raise", "task2") = {}

\* C29: in every installment_recommendation row the reported net_profit is
\* the reported gross_profit minus the reported expected_default_loss.
C29_NetIsGrossMinusLoss ==
    (out.task = "task5" /\ ReportKey = "installment_recommendation") =>
        \A r \in ReportRowSet :
            r.net_profit = r.gross_profit - r.expected_default_loss

\* C30: grouping conserves counts and sales: the transaction_count values
\* of monthly_trends, of hourly_patterns and of installment_recommendation
\* each sum to the number of cleaned rows, and the total_sales values of
\* monthly_trends and of hourly_patterns each sum to the sum of
\* purchase_amount over the cleaned rows; the group of the rows without a
\* number of installments is counted.
C30_GroupsConserveCountAndSales ==
    out.task = "task5" =>
        LET idx == 1..Len(ReportRows)
            once == [i \in idx |-> 1]
        IN  /\ ReportKey \in {"monthly_trends", "hourly_patterns",
                              "installment_recommendation"} =>
                  SumBy(idx, once, [i \in idx |-> ReportRows[i].transaction_count])
                    = BagCardinality(cleaned)
            /\ ReportKey \in {"monthly_trends", "hourly_patterns"} =>
                  SumBy(idx, once, [i \in idx |-> ReportRows[i].total_sales])
                    = TotalSales(cleaned)

C30_Witness ==
    /\ out.task = "task5"
    /\ ReportKey = "installment_recommendation"
    /\ BagCardinality(cleaned) = 3
    /\ Len(ReportRows) = 2
    /\ ReportRows[1].installments = NullInt
    /\ ReportRows[1].transaction_count = 2
    /\ ReportRows[2].transaction_count = 1
    /\ Cardinality({c.purchase_date.hour : c \in CleanedRows}) = 2
=============================================================================
